---------------------------- MODULE Spec2Model ----------------------------
(***************************************************************************)
(* A model of src/src/types/observablearray.ts (mobservable): the          *)
(* ObservableArrayAdministration, the ObservableArray facade built on it,  *)
(* and the shared pool of index accessors.                                 *)
(*                                                                         *)
(* Every method of the source is an operator that maps an execution        *)
(* record s (the fields of the administration, the module-level state and  *)
(* the effects observed so far) to the execution record after the method   *)
(* ran.  A thrown Error is the field err: once it is set every following   *)
(* step is skipped, as the exception unwinds the JavaScript stack.         *)
(* Listeners are called synchronously from emit, so a method and the       *)
(* callbacks it triggers form one action of the state machine.             *)
(***************************************************************************)
EXTENDS Integers, Sequences, FiniteSets, TLC

VARIABLES
    values,                        \* adm.values, the backing storage
    lastKnownLength,               \* adm.lastKnownLength
    mode,                          \* adm.mode (ValueMode)
    changeEvent,                   \* adm.changeEvent: undefined, or its listeners
    OBSERVABLE_ARRAY_BUFFER_SIZE,  \* module-level high-water mark of the pool
    accessors,                     \* ObservableArray.prototype has the index accessors
                                   \* of the positions 0 .. accessors - 1
    allowStateChanges,             \* globalState.allowStateChanges
    scripts,                       \* what each listener callback still does when it is called
    counter,                       \* what each listener subscribed with observe(l, true)
                                   \* has added up from the records it was given
    last,                          \* the call the client made last, and what it observed
    plain                          \* a plain array the client runs side by side

vars == <<values, lastKnownLength, mode, changeEvent, OBSERVABLE_ARRAY_BUFFER_SIZE, accessors,
          allowStateChanges, scripts, counter, last, plain>>

(***************************************************************************)
(* Bounds of the model.                                                    *)
(***************************************************************************)
MaxLen == 2

(***************************************************************************)
(* Program constants.                                                      *)
(***************************************************************************)
INITIAL_RESERVE == 1000

(***************************************************************************)
(* Values.  A JavaScript value is modelled by its identity (id), its       *)
(* structure (shape) and its kind: a primitive, a plain object, a reactive *)
(* (observable) object, a value carrying a modifier (asFlat(..), ...),     *)
(* undefined, null, or the hole of a sparse array.                         *)
(***************************************************************************)
Val(k, i, sh) == [kind |-> k, id |-> i, shape |-> sh]

Undefined == Val("undefined", "undefined", "undefined")
Hole      == Val("hole", "hole", "undefined")
P1        == Val("prim", "1", "1")
P2        == Val("prim", "2", "2")
OA        == Val("plain", "a", "S")
OB        == Val("plain", "b", "S")
MV        == Val("modifier", "m", "M")
Null      == Val("null", "null", "null")

Modes == {"Reference", "Flat", "Structure", "Recursive"}

Max(a, b) == IF a > b THEN a ELSE b
Min(a, b) == IF a < b THEN a ELSE b

\* An optional argument: None is an argument that is undefined (or not passed).
None    == <<>>
Some(x) == <<x>>


(***************************************************************************)
(* What a call can return.  One record shape serves every method, so that  *)
(* results of different methods can sit in the same variable.              *)
(*   kind "list": a fresh array (list); "live": the backing storage itself *)
(*   (list holds its contents); "num", "bool", "val": a number, a boolean, *)
(*   a single value; "void": nothing; "handle": an unsubscribe function    *)
(*   for listener name; "string", "opaque": the result of a library        *)
(*   function name applied to list.                                        *)
(***************************************************************************)
Ret(k) == [kind |-> k, list |-> <<>>, num |-> 0, bool |-> FALSE, val |-> Undefined, name |-> ""]

RetVoid          == Ret("void")
RetList(l)       == [Ret("list") EXCEPT !.list = l]
RetLive(l)       == [Ret("live") EXCEPT !.list = l]
RetNum(n)        == [Ret("num") EXCEPT !.num = n]
RetBool(b)       == [Ret("bool") EXCEPT !.bool = b]
RetVal(v)        == [Ret("val") EXCEPT !.val = v]
RetHandle(l)     == [Ret("handle") EXCEPT !.name = l]
RetOpaque(f, l)  == [Ret("opaque") EXCEPT !.name = f, !.list = l]
RetString(f, l)  == [Ret("string") EXCEPT !.name = f, !.list = l]

(***************************************************************************)
(* The effects of a call, in the order they happen.  depth is 0 for what   *)
(* the client's own call does and d + 1 for what a listener called at      *)
(* depth d does.                                                           *)
(*   reportObserved, reportChanged : the calls on adm.atom                 *)
(*   wrap   : makeReactiveArrayItem was applied to value                   *)
(*   store  : adm.values was written; snapshot is its new content          *)
(*   emit   : changeEvent.emit was called with the record                  *)
(*            {type, index, removed, addedCount, oldValue}                 *)
(*   listen : the listener was called with that record; snapshot and       *)
(*            lastKnownLength are adm.values and adm.lastKnownLength then   *)
(*   on     : changeEvent.on registered the listener                       *)
(***************************************************************************)
Ev(name, d) ==
    [ev |-> name, depth |-> d, type |-> "", index |-> 0, removed |-> <<>>,
     addedCount |-> 0, oldValue |-> Undefined, listener |-> "", value |-> Undefined,
     snapshot |-> <<>>, lastKnownLength |-> 0]

SpliceRecord(index, removed, addedCount) ==
    [type |-> "splice", index |-> index, removed |-> removed,
     addedCount |-> addedCount, oldValue |-> Undefined]

UpdateRecord(index, oldValue) ==
    [type |-> "update", index |-> index, removed |-> <<>>,
     addedCount |-> 0, oldValue |-> oldValue]

WithRecord(e, rec) ==
    [e EXCEPT !.type = rec.type, !.index = rec.index, !.removed = rec.removed,
              !.addedCount = rec.addedCount, !.oldValue = rec.oldValue]

RecordOf(e) ==
    [type |-> e.type, index |-> e.index, removed |-> e.removed,
     addedCount |-> e.addedCount, oldValue |-> e.oldValue]

(***************************************************************************)
(* Execution records.                                                      *)
(***************************************************************************)
Ok(s)        == s.err = "none"
Throw(s, e)  == [s EXCEPT !.err = e]
Return(s, r) == [s EXCEPT !.ret = r]
Log(s, e)    == [s EXCEPT !.trace = Append(@, e)]

\* return r unless an exception is on its way up
ReturnIfOk(s, r) == IF Ok(s) THEN Return(s, r) ELSE s

\* Atom.reportObserved / Atom.reportChanged (core/atom).
reportObserved(s) == Log(s, Ev("reportObserved", s.depth))
reportChanged(s)  == Log(s, Ev("reportChanged", s.depth))

\* checkIfStateModificationsAreAllowed (core/globalstate): an invariant on
\* globalState.allowStateChanges.
checkIfStateModificationsAreAllowed(s) ==
    IF ~Ok(s) THEN s
    ELSE IF s.allowStateChanges THEN s ELSE Throw(s, "StateChangesNotAllowed")

\* assertUnwrapped (types/modifiers): throws for a value that carries a modifier.
assertUnwrapped(s, value) ==
    IF ~Ok(s) THEN s
    ELSE IF value.kind = "modifier" THEN Throw(s, "Modifier") ELSE s

\* makeChildObservable (types/modifiers): an observable value is returned as it
\* is, a plain object or array becomes observable, anything else is returned.
makeChildObservable(value, m) ==
    IF value.kind = "reactive" THEN value
    ELSE IF m = "Reference" THEN value
    ELSE IF value.kind = "plain" THEN [value EXCEPT !.kind = "reactive"]
    ELSE value

\* deepEquals (utils/utils): structural equality.
deepEquals(a, b) == a.shape = b.shape

\* a === b
StrictEquals(a, b) == a = b

(***************************************************************************)
(* The operations a client, or a listener from inside its callback, can    *)
(* ask for.  One record shape serves every operation.                      *)
(***************************************************************************)
Op(n) ==
    [name |-> n, argc |-> 0, index |-> None, deleteCount |-> None, items |-> None,
     value |-> Undefined, num |-> 0, listener |-> "", fire |-> FALSE, script |-> <<>>]

RECURSIVE Exec(_, _)

(***************************************************************************)
(* SimpleEventEmitter (utils/simpleeventemitter).  A listener is client    *)
(* code: it notes the record it was given and then runs the next           *)
(* operation of its script, if any, on the same container.                 *)
(***************************************************************************)
ListenerRuns(s, l, d) ==
    IF s.scripts[l] = <<>> THEN s
    ELSE [Exec([s EXCEPT !.scripts[l] = Tail(@), !.depth = d + 1], Head(s.scripts[l]))
            EXCEPT !.depth = d]

Listener(s, l, rec) ==
    IF ~Ok(s) THEN s
    ELSE ListenerRuns(Log(s, WithRecord([Ev("listen", s.depth) EXCEPT
                                             !.listener = l, !.snapshot = s.values,
                                             !.lastKnownLength = s.lastKnownLength],
                                         rec)),
                      l, s.depth)

RECURSIVE CallListeners(_, _, _)
CallListeners(s, listeners, rec) ==
    IF listeners = <<>> \/ ~Ok(s) THEN s
    ELSE CallListeners(Listener(s, Head(listeners), rec), Tail(listeners), rec)

\* emit: calls every listener of a copy of the list taken when emit starts.
emit(s, rec) ==
    IF ~Ok(s) THEN s
    ELSE CallListeners(Log(s, WithRecord(Ev("emit", s.depth), rec)), s.changeEvent[1], rec)

\* on: appends the listener and returns the function that removes it.
on(s, l) ==
    IF ~Ok(s) THEN s
    ELSE Return(Log([s EXCEPT !.changeEvent = Some(Append(@[1], l))],
                    [Ev("on", s.depth) EXCEPT !.listener = l]),
                RetHandle(l))

(***************************************************************************)
(* Array.prototype.splice(start, deleteCount, ...items) on a plain array:  *)
(* what it removes and what it leaves.                                     *)
(***************************************************************************)
SpreadItems(items) == [i \in 1..Len(items) |-> IF items[i] = Hole THEN Undefined ELSE items[i]]

SpliceStart(arr, start) ==
    IF start < 0 THEN Max(Len(arr) + start, 0) ELSE Min(start, Len(arr))

SpliceCount(arr, start, deleteCount) ==
    Min(Max(deleteCount, 0), Len(arr) - SpliceStart(arr, start))

ArraySpliceRemoved(arr, start, deleteCount) ==
    SubSeq(arr, SpliceStart(arr, start) + 1,
           SpliceStart(arr, start) + SpliceCount(arr, start, deleteCount))

ArraySpliceRest(arr, start, deleteCount, items) ==
    SubSeq(arr, 1, SpliceStart(arr, start)) \o SpreadItems(items)
      \o SubSeq(arr, SpliceStart(arr, start) + SpliceCount(arr, start, deleteCount) + 1, Len(arr))

(***************************************************************************)
(* The shared pool of index accessors.                                     *)
(***************************************************************************)
\* A faulty variant of reserveArrayBuffer: the accessors are installed, the
\* high-water mark stays.
reserveArrayBufferKeepsMark(s, max) ==
    [s EXCEPT !.accessors = Max(@, max)]

\* for (index = OBSERVABLE_ARRAY_BUFFER_SIZE; index < max; index++)
\*     createArrayBufferItem(index);
\* OBSERVABLE_ARRAY_BUFFER_SIZE = max;
\* createArrayBufferItem defines an accessor that is not configurable: at a
\* position that has one already Object.defineProperty throws a TypeError.
reserveArrayBuffer(s, max) ==
    IF max > s.OBSERVABLE_ARRAY_BUFFER_SIZE /\ s.OBSERVABLE_ARRAY_BUFFER_SIZE < s.accessors
    THEN Throw(s, "CannotRedefine")
    ELSE [s EXCEPT !.OBSERVABLE_ARRAY_BUFFER_SIZE = max, !.accessors = Max(@, max)]

(***************************************************************************)
(* ObservableArrayAdministration                                           *)
(***************************************************************************)
makeReactiveArrayItemUnwrapped(s, value) ==
    IF ~Ok(s) THEN s
    ELSE Return(Log(s, [Ev("wrap", s.depth) EXCEPT !.value = value]),
                RetVal(IF s.mode = "Flat" \/ s.mode = "Reference" THEN value
                       ELSE makeChildObservable(value, s.mode)))

makeReactiveArrayItem(s, value) ==
    makeReactiveArrayItemUnwrapped(assertUnwrapped(s, value), value)

\* newItems.map((value) => this.makeReactiveArrayItem(value)): map skips holes.
\* LeadingHoles is the number of holes items starts with.
LeadingHoles(items) ==
    IF \A i \in 1..Len(items) : items[i] = Hole THEN Len(items)
    ELSE (CHOOSE i \in 1..Len(items) :
             /\ items[i] # Hole
             /\ \A j \in 1..(i - 1) : items[j] = Hole) - 1

RECURSIVE MapItems(_, _, _)
MapItemsNext(s, items, acc) ==
    IF ~Ok(s) THEN s ELSE MapItems(s, items, Append(acc, s.ret.val))

MapItems(s, items, acc) ==
    IF ~Ok(s) THEN s
    ELSE IF items = <<>> THEN Return(s, RetList(acc))
    ELSE IF Head(items) = Hole
    THEN MapItems(s, SubSeq(items, LeadingHoles(items) + 1, Len(items)),
                  acc \o SubSeq(items, 1, LeadingHoles(items)))
    ELSE MapItemsNext(makeReactiveArrayItem(s, Head(items)), Tail(items), acc)

updateLengthAllowed(s, oldLength, delta) ==
    IF ~Ok(s) THEN s
    ELSE IF delta > 0 /\ oldLength + delta > s.OBSERVABLE_ARRAY_BUFFER_SIZE
    THEN reserveArrayBuffer([s EXCEPT !.lastKnownLength = @ + delta], oldLength + delta)
    ELSE [s EXCEPT !.lastKnownLength = @ + delta]

\* A faulty variant of updateLength: lastKnownLength moves before the check
\* whether state may change.
updateLengthBeforeTheCheck(s, oldLength, delta) ==
    IF ~Ok(s) THEN s
    ELSE IF oldLength # s.lastKnownLength THEN Throw(s, "ModificationException")
    ELSE updateLengthAllowed(
            checkIfStateModificationsAreAllowed([s EXCEPT !.lastKnownLength = @ + delta]),
            oldLength, 0)

\* A faulty variant of updateLength: checkIfStateModificationsAreAllowed is not
\* called.
updateLengthUnguarded(s, oldLength, delta) ==
    IF ~Ok(s) THEN s
    ELSE IF oldLength # s.lastKnownLength THEN Throw(s, "ModificationException")
    ELSE updateLengthAllowed(s, oldLength, delta)

updateLength(s, oldLength, delta) ==
    IF ~Ok(s) THEN s
    ELSE IF oldLength # s.lastKnownLength THEN Throw(s, "ModificationException")
    ELSE updateLengthAllowed(checkIfStateModificationsAreAllowed(s), oldLength, delta)

\* if (this.changeEvent) this.changeEvent.emit(record)
emitIfListening(s, rec) ==
    IF ~Ok(s) THEN s
    ELSE IF s.changeEvent # None THEN emit(s, rec) ELSE s

notifyChildUpdate(s, index, oldValue) ==
    IF ~Ok(s) THEN s
    ELSE emitIfListening(reportChanged(s), UpdateRecord(index, oldValue))

notifySplice(s, index, deleted, added) ==
    IF ~Ok(s) THEN s
    ELSE IF Len(deleted) = 0 /\ Len(added) = 0 THEN s
    ELSE emitIfListening(reportChanged(s), SpliceRecord(index, deleted, Len(added)))

\* A faulty variant of SpliceIndex: a position beyond the end is not brought
\* back to the end.
SpliceIndexUnclamped(index, length) ==
    IF index = None THEN 0
    ELSE IF index[1] < 0 THEN Max(0, length + index[1])
    ELSE index[1]

\* The position spliceWithArray works at, from its optional argument index.
SpliceIndex(index, length) ==
    IF index = None THEN 0
    ELSE IF index[1] > length THEN length
    ELSE IF index[1] < 0 THEN Max(0, length + index[1])
    ELSE index[1]

\* A faulty variant of SpliceDeleteCount: a call with the position alone
\* removes nothing.
SpliceDeleteCountNoDefault(deleteCount, argc, idx, length) ==
    IF argc = 1 \/ deleteCount = None THEN 0
    ELSE Max(0, Min(deleteCount[1], length - idx))

\* The number of elements spliceWithArray removes at position idx.
SpliceDeleteCount(deleteCount, argc, idx, length) ==
    IF argc = 1 THEN length - idx
    ELSE IF deleteCount = None THEN 0
    ELSE Max(0, Min(deleteCount[1], length - idx))

\* const res = this.values.splice(index, deleteCount, ...newItems);
\* this.notifySplice(index, res, newItems); return res
spliceWithArrayStore(s, idx, dc, items) ==
    IF ~Ok(s) THEN s
    ELSE ReturnIfOk(
            notifySplice(
                Log([s EXCEPT !.values = ArraySpliceRest(s.values, idx, dc, items)],
                    [Ev("store", s.depth) EXCEPT
                        !.snapshot = ArraySpliceRest(s.values, idx, dc, items)]),
                idx, ArraySpliceRemoved(s.values, idx, dc), items),
            RetList(ArraySpliceRemoved(s.values, idx, dc)))

\* A faulty variant of spliceWithArrayMapped: the storage is written and the
\* listeners are notified before updateLength runs.
spliceWithArrayNotifyFirst(s, length, idx, dc) ==
    IF ~Ok(s) THEN s
    ELSE updateLength(spliceWithArrayStore(s, idx, dc, s.ret.list),
                      length, Len(s.ret.list) - dc)

\* s.ret.list holds newItems as mapped; this.updateLength(length, lengthDelta)
spliceWithArrayMapped(s, length, idx, dc) ==
    IF ~Ok(s) THEN s
    ELSE spliceWithArrayStore(updateLength(s, length, Len(s.ret.list) - dc),
                              idx, dc, s.ret.list)

\* A faulty variant of spliceWithArray: the fast path is taken for an empty
\* storage only.
spliceWithArrayNarrowFastPath(s, index, deleteCount, newItems, argc) ==
    IF ~Ok(s) THEN s
    ELSE IF (IF newItems = None THEN TRUE ELSE Len(newItems[1]) = 0)
            /\ Len(s.values) = 0
    THEN Return(s, RetList(<<>>))
    ELSE spliceWithArrayMapped(
            IF newItems = None THEN Return(s, RetList(<<>>))
            ELSE MapItems(s, newItems[1], <<>>),
            Len(s.values),
            SpliceIndex(index, Len(s.values)),
            SpliceDeleteCount(deleteCount, argc, SpliceIndex(index, Len(s.values)),
                              Len(s.values)))

\* index, deleteCount, newItems are optional arguments; argc is arguments.length.
spliceWithArray(s, index, deleteCount, newItems, argc) ==
    IF ~Ok(s) THEN s
    ELSE IF (IF newItems = None THEN TRUE ELSE Len(newItems[1]) = 0)
            /\ (deleteCount = Some(0) \/ Len(s.values) = 0)
    THEN Return(s, RetList(<<>>))
    ELSE spliceWithArrayMapped(
            IF newItems = None THEN Return(s, RetList(<<>>))
            ELSE MapItems(s, newItems[1], <<>>),
            Len(s.values),
            SpliceIndex(index, Len(s.values)),
            SpliceDeleteCount(deleteCount, argc, SpliceIndex(index, Len(s.values)),
                              Len(s.values)))

getLength(s) ==
    IF ~Ok(s) THEN s
    ELSE Return(reportObserved(s), RetNum(Len(s.values)))

\* new Array(n): n holes.
NewArray(n) == [i \in 1..n |-> Hole]

\* A faulty variant of setLength: a shorter length removes from the front.
setLengthFromTheFront(s, newLength) ==
    IF ~Ok(s) THEN s
    ELSE IF newLength < 0 THEN Throw(s, "OutOfRange")
    ELSE IF newLength = Len(s.values) THEN Return(s, RetVoid)
    ELSE IF newLength > Len(s.values)
    THEN ReturnIfOk(spliceWithArray(s, Some(Len(s.values)), Some(0),
                                    Some(NewArray(newLength - Len(s.values))), 3), RetVoid)
    ELSE ReturnIfOk(spliceWithArray(s, Some(0),
                                    Some(Len(s.values) - newLength), None, 2), RetVoid)

\* newLength is a number here; a value that is no number throws like a negative one.
setLength(s, newLength) ==
    IF ~Ok(s) THEN s
    ELSE IF newLength < 0 THEN Throw(s, "OutOfRange")
    ELSE IF newLength = Len(s.values) THEN Return(s, RetVoid)
    ELSE IF newLength > Len(s.values)
    THEN ReturnIfOk(spliceWithArray(s, Some(Len(s.values)), Some(0),
                                    Some(NewArray(newLength - Len(s.values))), 3), RetVoid)
    ELSE ReturnIfOk(spliceWithArray(s, Some(newLength),
                                    Some(Len(s.values) - newLength), None, 2), RetVoid)

(***************************************************************************)
(* Plain-array library functions used by the facade.                       *)
(***************************************************************************)
\* Array.prototype.indexOf: the first position (from 0) holding value, or -1.
IndexOf(arr, value) ==
    IF \E i \in 1..Len(arr) : StrictEquals(arr[i], value)
    THEN (CHOOSE i \in 1..Len(arr) :
             /\ StrictEquals(arr[i], value)
             /\ \A j \in 1..(i - 1) : ~StrictEquals(arr[j], value)) - 1
    ELSE -1

\* Array.prototype.reverse
Reverse(arr) == [i \in 1..Len(arr) |-> arr[Len(arr) + 1 - i]]

\* Array.prototype.sort without a compare function orders by the string each
\* value converts to, undefined last: "1" < "2" < "[object Object]".
SortKey(v) ==
    IF v.kind = "undefined" THEN 9
    ELSE IF v.kind = "prim" THEN (IF v.id = "1" THEN 1 ELSE 2)
    ELSE 5

RECURSIVE InsertSorted(_, _)
InsertSorted(sorted, v) ==
    IF sorted = <<>> THEN <<v>>
    ELSE IF SortKey(v) < SortKey(Head(sorted)) THEN <<v>> \o sorted
    ELSE <<Head(sorted)>> \o InsertSorted(Tail(sorted), v)

RECURSIVE SortArray(_)
SortArray(arr) ==
    IF arr = <<>> THEN <<>>
    ELSE InsertSorted(SortArray(SubSeq(arr, 1, Len(arr) - 1)), arr[Len(arr)])

\* the [0] of a list
First(list) == IF Len(list) > 0 THEN list[1] ELSE Undefined

(***************************************************************************)
(* ObservableArray: the facade.                                            *)
(***************************************************************************)
\* adm.values = initialValues.map(v => adm.makeReactiveArrayItem(v))
ConstructorValues(s) ==
    IF ~Ok(s) THEN s ELSE Return([s EXCEPT !.values = s.ret.list], RetVoid)

\* new ObservableArray(initialValues, mode, name) in the environment env
\* (the module-level and global state); the administration starts with
\* lastKnownLength 0 and no changeEvent.
Constructor(env, initialValues, m) ==
    IF Len(initialValues) > 0
    THEN ConstructorValues(
            MapItems(updateLength([env EXCEPT !.values = <<>>, !.lastKnownLength = 0,
                                              !.mode = m, !.changeEvent = None],
                                  0, Len(initialValues)),
                     initialValues, <<>>))
    ELSE Return([env EXCEPT !.values = <<>>, !.lastKnownLength = 0, !.mode = m,
                            !.changeEvent = None], RetVoid)

\* A faulty variant of observeCreated: the listener is called whatever
\* fireImmediately says.
observeCreatedAlwaysFires(s, listener, fireImmediately) ==
    on(Listener(s, listener, SpliceRecord(0, <<>>, Len(s.values))), listener)

\* if (fireImmediately) listener(...); return this.$mobservable.changeEvent.on(listener)
observeCreated(s, listener, fireImmediately) ==
    on(IF fireImmediately
       THEN Listener(s, listener, SpliceRecord(0, <<>>, Len(s.values)))
       ELSE s,
       listener)

observe(s, listener, fireImmediately) ==
    IF ~Ok(s) THEN s
    ELSE observeCreated(IF s.changeEvent = None THEN [s EXCEPT !.changeEvent = Some(<<>>)]
                        ELSE s,
                        listener, fireImmediately)

\* The function observe returned: removes the listener's first registration.
unsubscribe(s, listener) ==
    IF ~Ok(s) THEN s
    ELSE IF IndexOf(s.changeEvent[1], listener) # -1
    THEN Return([s EXCEPT !.changeEvent =
                    Some(SubSeq(@[1], 1, IndexOf(@[1], listener))
                         \o SubSeq(@[1], IndexOf(@[1], listener) + 2, Len(@[1])))],
                RetVoid)
    ELSE Return(s, RetVoid)

\* splice(index, deleteCount, ...newItems); argc is arguments.length.
splice(s, index, deleteCount, newItems, argc) ==
    IF ~Ok(s) THEN s
    ELSE IF argc = 0 THEN Return(s, RetList(<<>>))
    ELSE IF argc = 1 THEN spliceWithArray(s, index, None, None, 1)
    ELSE IF argc = 2 THEN spliceWithArray(s, index, deleteCount, None, 2)
    ELSE spliceWithArray(s, index, deleteCount, Some(newItems), 3)

clear(s) == splice(s, Some(0), None, <<>>, 1)

replace(s, newItems) ==
    IF ~Ok(s) THEN s
    ELSE spliceWithArray(s, Some(0), Some(Len(s.values)), newItems, 3)

toJSON(s) ==
    IF ~Ok(s) THEN s
    ELSE Return(reportObserved(s), RetList(s.values))

peek(s) ==
    IF ~Ok(s) THEN s
    ELSE Return(reportObserved(s), RetLive(s.values))

\* find(predicate): the predicate here holds of the items shaped like value.
FindFirst(items, value) ==
    IF \E i \in 1..Len(items) : items[i].shape = value.shape
    THEN items[CHOOSE i \in 1..Len(items) :
                  /\ items[i].shape = value.shape
                  /\ \A j \in 1..(i - 1) : items[j].shape # value.shape]
    ELSE Null

find(s, value) ==
    IF ~Ok(s) THEN s
    ELSE Return(reportObserved(s), RetVal(FindFirst(s.values, value)))

\* return this.$mobservable.values.length
ReturnLength(s) == IF ~Ok(s) THEN s ELSE Return(s, RetNum(Len(s.values)))

\* return (the list the call returned)[0]
ReturnFirst(s) == IF ~Ok(s) THEN s ELSE Return(s, RetVal(First(s.ret.list)))

push(s, items) ==
    IF ~Ok(s) THEN s
    ELSE ReturnLength(spliceWithArray(s, Some(Len(s.values)), Some(0), Some(items), 3))

\* A faulty variant of pop: the position is the length, one beyond the last.
popBeyondTheLast(s) ==
    IF ~Ok(s) THEN s
    ELSE ReturnFirst(splice(s, Some(Len(s.values)), Some(1), <<>>, 2))

pop(s) ==
    IF ~Ok(s) THEN s
    ELSE ReturnFirst(splice(s, Some(Max(Len(s.values) - 1, 0)), Some(1), <<>>, 2))

shift(s) ==
    IF ~Ok(s) THEN s
    ELSE ReturnFirst(splice(s, Some(0), Some(1), <<>>, 2))

unshift(s, items) ==
    IF ~Ok(s) THEN s
    ELSE ReturnLength(spliceWithArray(s, Some(0), Some(0), Some(items), 3))

\* The functions wrapped from Array.prototype: concat, every, filter, forEach,
\* indexOf, join, lastIndexOf, map, reduce, reduceRight, slice, some.
WrappedFunctions ==
    {"concat", "every", "filter", "forEach", "indexOf", "join", "lastIndexOf",
     "map", "reduce", "reduceRight", "slice", "some"}

\* baseFunc.apply(this.$mobservable.values, arguments)
BaseFunc(funcName, arr, value) ==
    IF funcName = "slice" THEN RetList(arr)
    ELSE IF funcName = "indexOf" THEN RetNum(IndexOf(arr, value))
    ELSE IF funcName = "concat" THEN RetList(arr \o <<value>>)
    ELSE IF funcName = "join" THEN RetString(funcName, arr)
    ELSE RetOpaque(funcName, arr)

wrapped(s, funcName, value) ==
    IF ~Ok(s) THEN s
    ELSE Return(reportObserved(s), BaseFunc(funcName, s.values, value))

\* return clone.reverse.apply(clone, arguments)
ReturnReversed(s) == IF ~Ok(s) THEN s ELSE Return(s, RetList(Reverse(s.ret.list)))

\* return clone.sort.apply(clone, arguments)
ReturnSorted(s) == IF ~Ok(s) THEN s ELSE Return(s, RetList(SortArray(s.ret.list)))

\* A faulty variant of reverse: the storage itself is reversed.
reverseInPlace(s) ==
    IF ~Ok(s) THEN s
    ELSE ReturnReversed(wrapped(reportObserved([s EXCEPT !.values = Reverse(@)]),
                                "slice", Undefined))

reverse(s) ==
    IF ~Ok(s) THEN s
    ELSE ReturnReversed(wrapped(reportObserved(s), "slice", Undefined))

sort(s) ==
    IF ~Ok(s) THEN s
    ELSE ReturnSorted(wrapped(reportObserved(s), "slice", Undefined))

\* A faulty variant of remove: splice is called with the index alone.
removeToTheEnd(s, value) ==
    IF ~Ok(s) THEN s
    ELSE IF IndexOf(s.values, value) > -1
    THEN ReturnIfOk(splice(s, Some(IndexOf(s.values, value)), None, <<>>, 1),
                    RetBool(TRUE))
    ELSE Return(s, RetBool(FALSE))

remove(s, value) ==
    IF ~Ok(s) THEN s
    ELSE IF IndexOf(s.values, value) > -1
    THEN ReturnIfOk(splice(s, Some(IndexOf(s.values, value)), Some(1), <<>>, 2),
                    RetBool(TRUE))
    ELSE Return(s, RetBool(FALSE))

toString(s) ==
    IF ~Ok(s) THEN s ELSE Return(s, RetString("toString", s.values))

toLocaleString(s) ==
    IF ~Ok(s) THEN s ELSE Return(s, RetString("toLocaleString", s.values))

(***************************************************************************)
(* The accessor createArrayBufferItem(index) installs for one position.    *)
(***************************************************************************)
\* A faulty variant of Changed: identity decides in every mode.
ChangedByIdentity(m, oldValue, value) == ~StrictEquals(oldValue, value)

\* const changed = impl.mode === ValueMode.Structure
\*     ? !deepEquals(oldValue, value) : oldValue !== value
Changed(m, oldValue, value) ==
    IF m = "Structure" THEN ~deepEquals(oldValue, value)
    ELSE ~StrictEquals(oldValue, value)

\* values[index] = (the item made reactive); impl.notifyChildUpdate(index, oldValue)
ArrayBufferItemStore(s, index, oldValue) ==
    IF ~Ok(s) THEN s
    ELSE ReturnIfOk(
            notifyChildUpdate(
                Log([s EXCEPT !.values[index + 1] = s.ret.val],
                    [Ev("store", s.depth) EXCEPT
                        !.snapshot = [s.values EXCEPT ![index + 1] = s.ret.val]]),
                index, oldValue),
            RetVoid)

\* the branch index < values.length, after checkIfStateModificationsAreAllowed()
ArrayBufferItemUpdate(s, index, value) ==
    IF ~Ok(s) THEN s
    ELSE IF Changed(s.mode, s.values[index + 1], value)
    THEN ArrayBufferItemStore(makeReactiveArrayItem(s, value), index, s.values[index + 1])
    ELSE Return(s, RetVoid)

\* the branch index === values.length, with the item made reactive in s.ret.val
ArrayBufferItemAppend(s, index) ==
    IF ~Ok(s) THEN s
    ELSE ReturnIfOk(spliceWithArray(s, Some(index), Some(0), Some(<<s.ret.val>>), 3),
                    RetVoid)

\* the setter, after assertUnwrapped(value, ...)
ArrayBufferItemSetUnwrapped(s, index, value) ==
    IF ~Ok(s) THEN s
    ELSE IF index < Len(s.values)
    THEN ArrayBufferItemUpdate(checkIfStateModificationsAreAllowed(s), index, value)
    ELSE IF index = Len(s.values)
    THEN ArrayBufferItemAppend(makeReactiveArrayItem(s, value), index)
    ELSE Throw(s, "IndexOutOfBounds")

ArrayBufferItemSet(s, index, value) ==
    ArrayBufferItemSetUnwrapped(assertUnwrapped(s, value), index, value)

ArrayBufferItemGet(s, index) ==
    IF ~Ok(s) THEN s
    ELSE IF index < Len(s.values)
    THEN Return(reportObserved(s), RetVal(s.values[index + 1]))
    ELSE Return(s, RetVal(Undefined))

\* container[index] = value.  A position below accessors has the
\* accessor of the prototype; at any other position the assignment creates
\* an ordinary property of the container object, which the administration
\* never sees.
IndexSet(s, index, value) ==
    IF ~Ok(s) THEN s
    ELSE IF index < s.accessors THEN ArrayBufferItemSet(s, index, value)
    ELSE Return(s, RetVoid)

\* container[index], for a position below the high-water mark.
IndexGet(s, index) == ArrayBufferItemGet(s, index)

(***************************************************************************)
(* One operation, asked for by the client or by a listener.                *)
(***************************************************************************)
Exec(s, op) ==
    CASE op.name = "spliceWithArray" ->
            spliceWithArray(s, op.index, op.deleteCount, op.items, op.argc)
      [] op.name = "splice" ->
            splice(s, op.index, op.deleteCount,
                   IF op.items = None THEN <<>> ELSE op.items[1], op.argc)
      [] op.name = "push"      -> push(s, op.items[1])
      [] op.name = "unshift"   -> unshift(s, op.items[1])
      [] op.name = "pop"       -> pop(s)
      [] op.name = "shift"     -> shift(s)
      [] op.name = "clear"     -> clear(s)
      [] op.name = "replace"   -> replace(s, op.items)
      [] op.name = "remove"    -> remove(s, op.value)
      [] op.name = "set"       -> IndexSet(s, op.num, op.value)
      [] op.name = "get"       -> IndexGet(s, op.num)
      [] op.name = "getLength" -> getLength(s)
      [] op.name = "setLength" -> setLength(s, op.num)
      [] op.name = "observe"   ->
            observe([s EXCEPT !.scripts[op.listener] = op.script], op.listener, op.fire)
      [] op.name = "unsubscribe" -> unsubscribe(s, op.listener)
      [] op.name = "peek"      -> peek(s)
      [] op.name = "toJSON"    -> toJSON(s)
      [] op.name = "find"      -> find(s, op.value)
      [] op.name = "reverse"   -> reverse(s)
      [] op.name = "sort"      -> sort(s)
      [] op.name = "toString"  -> toString(s)
      [] op.name = "toLocaleString" -> toLocaleString(s)
      [] op.name \in WrappedFunctions -> wrapped(s, op.name, op.value)
      [] op.name = "reserveArrayBuffer" -> ReturnIfOk(reserveArrayBuffer(s, op.num), RetVoid)

(***************************************************************************)
(* The state machine.  The client calls one operation at a time; the call  *)
(* runs to completion, listeners included (there is no suspension point),  *)
(* and leaves in last what the client saw of it.  The client then goes on  *)
(* (Continue) and is free to call again.                                   *)
(***************************************************************************)
Listeners == {"L1"}

\* An element as a container of this mode is to hold it.
Stored(v) ==
    IF v = Hole THEN Undefined
    ELSE IF mode \in {"Flat", "Reference"} THEN v
    ELSE IF v.kind = "plain" THEN [v EXCEPT !.kind = "reactive"]
    ELSE v

StoredAll(list) == [i \in 1..Len(list) |-> Stored(list[i])]

\* The plain array: what Array.prototype's push, unshift, pop, shift,
\* splice(0) and splice(0, length, ...items) make of arr and return, given
\* the items as a container of this mode is to hold them.
Conveniences == {"push", "unshift", "pop", "shift", "clear", "replace"}

PlainAfter(arr, op) ==
    CASE op.name = "push"    -> arr \o StoredAll(op.items[1])
      [] op.name = "unshift" -> StoredAll(op.items[1]) \o arr
      [] op.name = "pop"     -> IF arr = <<>> THEN arr ELSE SubSeq(arr, 1, Len(arr) - 1)
      [] op.name = "shift"   -> IF arr = <<>> THEN arr ELSE Tail(arr)
      [] op.name = "clear"   -> <<>>
      [] op.name = "replace" -> IF op.items = None THEN <<>> ELSE StoredAll(op.items[1])

PlainReturn(arr, op) ==
    CASE op.name = "push"    -> RetNum(Len(arr) + Len(op.items[1]))
      [] op.name = "unshift" -> RetNum(Len(op.items[1]) + Len(arr))
      [] op.name = "pop"     -> RetVal(IF arr = <<>> THEN Undefined ELSE arr[Len(arr)])
      [] op.name = "shift"   -> RetVal(IF arr = <<>> THEN Undefined ELSE Head(arr))
      [] op.name = "clear"   -> RetList(arr)
      [] op.name = "replace" -> RetList(arr)

\* The client runs on the plain array the convenience it ran on the
\* container, when the call returned and no listener worked on the container
\* meanwhile; after anything else it takes a fresh copy of the contents.
Mirrors(s, op) ==
    /\ Ok(s)
    /\ op.name \in Conveniences
    /\ \A i \in 1..Len(s.trace) : s.trace[i].depth = 0

Idle ==
    [op |-> Op("none"), err |-> "none", ret |-> RetVoid, plain |-> RetVoid, trace |-> <<>>,
     pre |-> [values |-> <<>>, lastKnownLength |-> 0, changeEvent |-> None,
              size |-> 0, accessors |-> 0, allow |-> TRUE]]

Current ==
    [values |-> values, lastKnownLength |-> lastKnownLength, mode |-> mode,
     changeEvent |-> changeEvent,
     OBSERVABLE_ARRAY_BUFFER_SIZE |-> OBSERVABLE_ARRAY_BUFFER_SIZE,
     accessors |-> accessors,
     allowStateChanges |-> allowStateChanges, scripts |-> scripts,
     trace |-> <<>>, err |-> "none", ret |-> RetVoid, depth |-> 0]

\* The state in which the module has been loaded: reserveArrayBuffer(1000).
Loaded ==
    reserveArrayBuffer(
        [values |-> <<>>, lastKnownLength |-> 0, mode |-> "Recursive",
         changeEvent |-> None, OBSERVABLE_ARRAY_BUFFER_SIZE |-> 0, accessors |-> 0,
         allowStateChanges |-> TRUE, scripts |-> [l \in Listeners |-> <<>>],
         trace |-> <<>>, err |-> "none", ret |-> RetVoid, depth |-> 0],
        INITIAL_RESERVE)

Becomes(s) ==
    /\ values' = s.values
    /\ lastKnownLength' = s.lastKnownLength
    /\ mode' = s.mode
    /\ changeEvent' = s.changeEvent
    /\ OBSERVABLE_ARRAY_BUFFER_SIZE' = s.OBSERVABLE_ARRAY_BUFFER_SIZE
    /\ accessors' = s.accessors
    /\ allowStateChanges' = s.allowStateChanges
    /\ scripts' = s.scripts

\* The counter of a listener: it starts at 0 when the listener is passed to
\* observe with fireImmediately, and the listener adds addedCount - |removed|
\* for each record it is called with (an update record adds 0).
RECURSIVE Tally(_, _)
Tally(trace, l) ==
    IF trace = <<>> THEN 0
    ELSE (IF Head(trace).ev = "listen" /\ Head(trace).listener = l
          THEN Head(trace).addedCount - Len(Head(trace).removed)
          ELSE 0) + Tally(Tail(trace), l)

\* The counter of l after the call of op has ended in s; None for a listener
\* that is not subscribed or was subscribed without fireImmediately.
Counted(s, op, l) ==
    IF s.changeEvent = None THEN None
    ELSE IF IndexOf(s.changeEvent[1], l) = -1 THEN None
    ELSE IF op.name = "observe" /\ op.listener = l
    THEN (IF op.fire THEN Some(Tally(s.trace, l)) ELSE None)
    ELSE IF counter[l] = None THEN None
    ELSE Some(counter[l][1] + Tally(s.trace, l))

\* The call of op has run and ended in s.
Settles(s, op) ==
    /\ Becomes(s)
    /\ counter' = [l \in Listeners |-> Counted(s, op, l)]
    /\ plain' = IF Mirrors(s, op) THEN PlainAfter(plain, op) ELSE s.values
    /\ last' = [op |-> op, err |-> s.err,
                ret |-> IF Ok(s) THEN s.ret ELSE RetVoid,
                plain |-> IF Mirrors(s, op) THEN PlainReturn(plain, op) ELSE RetVoid,
                trace |-> s.trace,
                pre |-> [values |-> values, lastKnownLength |-> lastKnownLength,
                         changeEvent |-> changeEvent,
                         size |-> OBSERVABLE_ARRAY_BUFFER_SIZE,
                         accessors |-> accessors,
                         allow |-> allowStateChanges]]

\* The call of op has run and ended in s, with a storage within the bound.
Outcome(s, op) ==
    /\ Len(s.values) <= MaxLen
    /\ Settles(s, op)

\* The client is free to call.
Ready == last.op.name = "none"

Call(op) ==
    /\ Ready
    /\ Outcome(Exec(Current, op), op)

(***************************************************************************)
(* The inputs of the operations.                                           *)
(***************************************************************************)
InputValues  == {P1, OA, OB, MV}
InputLists   == {<<>>, <<P1>>, <<OA, OB>>, <<MV>>}
InitialLists == {<<>>, <<P1>>, <<OA, P1>>}
Positions    == {-1, 0, 1, MaxLen + 1}
Counts       == {-1, 0, 1, MaxLen + 1}
Slots        == (0..(MaxLen + 1)) \cup {INITIAL_RESERVE}
Lengths      == -1..MaxLen

\* The container the constructor has left in s.
Constructed(s) ==
    /\ Ok(s)
    /\ values = s.values
    /\ lastKnownLength = s.lastKnownLength
    /\ mode = s.mode
    /\ changeEvent = s.changeEvent
    /\ OBSERVABLE_ARRAY_BUFFER_SIZE = s.OBSERVABLE_ARRAY_BUFFER_SIZE
    /\ accessors = s.accessors
    /\ allowStateChanges = s.allowStateChanges
    /\ scripts = s.scripts

Init ==
    /\ \E iv \in InitialLists, m \in Modes : Constructed(Constructor(Loaded, iv, m))
    /\ counter = [l \in Listeners |-> None]
    /\ last = Idle
    /\ plain = values

SpliceWithArray ==
    \E i \in {None} \cup {Some(x) : x \in Positions},
       d \in {None} \cup {Some(x) : x \in Counts},
       n \in {None} \cup {Some(x) : x \in InputLists},
       argc \in 1..3 :
        /\ argc = 1 => d = None /\ n = None
        /\ argc = 2 => n = None
        /\ Call([Op("spliceWithArray") EXCEPT !.index = i, !.deleteCount = d,
                                              !.items = n, !.argc = argc])

Splice ==
    \E argc \in 0..3, i \in {Some(-1), Some(0)} :
        /\ argc = 0 => i = Some(0)
        /\ Call([Op("splice") EXCEPT !.argc = argc,
                     !.index = IF argc >= 1 THEN i ELSE None,
                     !.deleteCount = IF argc >= 2 THEN Some(1) ELSE None,
                     !.items = IF argc >= 3 THEN Some(<<P1>>) ELSE None])

Push ==
    \E n \in InputLists :
        /\ Ready
        /\ Call([Op("push") EXCEPT !.items = Some(n), !.argc = Len(n)])

Unshift ==
    \E n \in InputLists :
        /\ Ready
        /\ Call([Op("unshift") EXCEPT !.items = Some(n), !.argc = Len(n)])

Pop ==
    /\ Ready
    /\ Call(Op("pop"))

Shift ==
    /\ Ready
    /\ Call(Op("shift"))

Clear ==
    /\ Ready
    /\ Call(Op("clear"))

Replace ==
    \E n \in {None} \cup {Some(x) : x \in InputLists} :
        /\ Ready
        /\ Call([Op("replace") EXCEPT !.items = n, !.argc = 1])

Remove ==
    \E v \in InputValues \cup {makeChildObservable(x, "Recursive") : x \in InputValues} :
        /\ Ready
        /\ Call([Op("remove") EXCEPT !.value = v, !.argc = 1])

SetIndex ==
    \E i \in Slots, v \in InputValues :
        /\ Ready
        /\ Call([Op("set") EXCEPT !.num = i, !.value = v])

GetIndex ==
    \E i \in Slots \ {INITIAL_RESERVE} :
        /\ Ready
        /\ Call([Op("get") EXCEPT !.num = i])

GetLength ==
    /\ Ready
    /\ Call(Op("getLength"))

SetLength ==
    \E n \in Lengths :
        /\ Ready
        /\ Call([Op("setLength") EXCEPT !.num = n])

Peek ==
    /\ Ready
    /\ Call(Op("peek"))

ToJSON ==
    /\ Ready
    /\ Call(Op("toJSON"))

Find ==
    \E v \in {P1, OA} :
        /\ Ready
        /\ Call([Op("find") EXCEPT !.value = v, !.argc = 1])

CallReverse ==
    /\ Ready
    /\ Call(Op("reverse"))

CallSort ==
    /\ Ready
    /\ Call(Op("sort"))

CallToString ==
    /\ Ready
    /\ Call(Op("toString"))

CallToLocaleString ==
    /\ Ready
    /\ Call(Op("toLocaleString"))

Wrapped ==
    \E f \in WrappedFunctions :
        /\ Ready
        /\ Call([Op(f) EXCEPT !.value = OA, !.argc = 1])

Subscribed(l) ==
    IF changeEvent = None THEN FALSE
    ELSE \E i \in 1..Len(changeEvent[1]) : changeEvent[1][i] = l

\* A listener that only listens.
Observe ==
    \E l \in Listeners, fire \in BOOLEAN :
        /\ ~Subscribed(l)
        /\ Call([Op("observe") EXCEPT !.listener = l, !.fire = fire, !.argc = 2])

Unsubscribe ==
    \E l \in Listeners :
        /\ Subscribed(l)
        /\ Call([Op("unsubscribe") EXCEPT !.listener = l])

\* The tracking system enters or leaves a phase in which state must not change.
SetAllowStateChanges ==
    /\ Ready
    /\ allowStateChanges' = ~allowStateChanges
    /\ UNCHANGED <<values, lastKnownLength, mode, changeEvent,
                   OBSERVABLE_ARRAY_BUFFER_SIZE, accessors, scripts, counter, last,
                   plain>>

\* The client has looked at the outcome of its call and goes on.
Continue ==
    /\ ~Ready
    /\ last' = Idle
    /\ UNCHANGED <<values, lastKnownLength, mode, changeEvent,
                   OBSERVABLE_ARRAY_BUFFER_SIZE, accessors, allowStateChanges, scripts,
                   counter, plain>>

Next ==
    \/ SpliceWithArray \/ Splice \/ Push \/ Unshift \/ Pop \/ Shift \/ Clear
    \/ Replace \/ Remove \/ SetIndex \/ GetIndex \/ GetLength \/ SetLength
    \/ Peek \/ ToJSON \/ Find \/ CallReverse \/ CallSort \/ CallToString \/ CallToLocaleString
    \/ Wrapped \/ Observe \/ Unsubscribe \/ SetAllowStateChanges \/ Continue

Spec == Init /\ [][Next]_vars

(***************************************************************************)
(* Listeners that work on the container from inside their callback: each   *)
(* time it is called, the listener runs the next operation of the script   *)
(* it was registered with.                                                 *)
(***************************************************************************)
MaxScript == 2

ScriptOps ==
    { [Op("push") EXCEPT !.items = Some(<<P1>>), !.argc = 1],
      Op("shift"),
      Op("clear"),
      [Op("set") EXCEPT !.num = 0, !.value = OB],
      [Op("setLength") EXCEPT !.num = 1] }

Scripts == UNION {[1..n -> ScriptOps] : n \in 1..MaxScript}

ObserveScripted ==
    \E l \in Listeners, fire \in BOOLEAN, script \in Scripts :
        /\ ~Subscribed(l)
        /\ Call([Op("observe") EXCEPT !.listener = l, !.fire = fire, !.argc = 2,
                                      !.script = script])

ReentrantInit ==
    /\ \E iv \in InitialLists, m \in {"Reference", "Recursive"} :
          Constructed(Constructor(Loaded, iv, m))
    /\ counter = [l \in Listeners |-> None]
    /\ last = Idle
    /\ plain = values

ReentrantNext ==
    \/ ObserveScripted \/ Unsubscribe \/ Splice \/ Push \/ Unshift \/ Pop \/ Shift
    \/ Clear \/ Replace \/ Remove \/ SetIndex \/ SetLength \/ Continue

ReentrantSpec == ReentrantInit /\ [][ReentrantNext]_vars

(***************************************************************************)
(* A client that changes the length of the storage behind the container's  *)
(* back: peek() has just handed it adm.values itself, and it pushes onto   *)
(* or pops from that array.                                                *)
(***************************************************************************)
\* observe(listener): fireImmediately takes its default, false.
ObserveLater ==
    \E l \in Listeners :
        /\ ~Subscribed(l)
        /\ Call([Op("observe") EXCEPT !.listener = l, !.argc = 1])

Tamper ==
    /\ last.ret.kind = "live"
    /\ \/ /\ Len(values) < MaxLen
          /\ values' = Append(values, P1)
       \/ /\ Len(values) > 0
          /\ values' = SubSeq(values, 1, Len(values) - 1)
    /\ plain' = values'
    /\ last' = Idle
    /\ UNCHANGED <<lastKnownLength, mode, changeEvent, OBSERVABLE_ARRAY_BUFFER_SIZE, accessors,
                   allowStateChanges, scripts, counter>>

TamperNext ==
    \/ Peek \/ Tamper \/ SpliceWithArray \/ Splice \/ Push \/ Unshift \/ Pop \/ Shift
    \/ Clear \/ Replace \/ Remove \/ SetIndex \/ SetLength \/ ObserveLater
    \/ SetAllowStateChanges \/ Continue

TamperSpec == Init /\ [][TamperNext]_vars

(***************************************************************************)
(* Containers as long as the accessor pool is at module load: the client   *)
(* writes a length at the initial reserve, and assigns at the position     *)
(* that is the length of the container.                                    *)
(***************************************************************************)
Grow ==
    \E n \in {INITIAL_RESERVE - 1, INITIAL_RESERVE, INITIAL_RESERVE + 1} :
        /\ Ready
        /\ Settles(Exec(Current, [Op("setLength") EXCEPT !.num = n]),
                   [Op("setLength") EXCEPT !.num = n])

AppendByIndex ==
    \E v \in {P1, OA} :
        /\ Ready
        /\ \/ Len(values) < MaxLen
           \/ Len(values) \in {INITIAL_RESERVE - 1, INITIAL_RESERVE, INITIAL_RESERVE + 1}
        /\ Settles(Exec(Current, [Op("set") EXCEPT !.num = Len(values), !.value = v]),
                   [Op("set") EXCEPT !.num = Len(values), !.value = v])

GrowNext ==
    \/ Grow \/ AppendByIndex \/ SetLength \/ Observe \/ SetAllowStateChanges \/ Continue

GrowSpec == Init /\ [][GrowNext]_vars

(***************************************************************************)
(* reserveArrayBuffer as a function of its own: it is called with a range  *)
(* below, at and above the high-water mark, next to the calls the          *)
(* container makes when it grows.                                          *)
(***************************************************************************)
Ranges == {INITIAL_RESERVE - 1, INITIAL_RESERVE, INITIAL_RESERVE + 1}

Reserve ==
    \E m \in Ranges :
        /\ Ready
        /\ Settles(Exec(Current, [Op("reserveArrayBuffer") EXCEPT !.num = m, !.argc = 1]),
                   [Op("reserveArrayBuffer") EXCEPT !.num = m, !.argc = 1])

PoolNext ==
    \/ Reserve \/ Grow \/ AppendByIndex \/ SetLength \/ Continue

PoolSpec == Init /\ [][PoolNext]_vars

(***************************************************************************)
(* What the properties below say about the last call.                      *)
(***************************************************************************)
\* The call returned: no Error was thrown.
Returned(name) == last.op.name = name /\ last.err = "none"

\* No listener operated on the container while the call ran.
Undisturbed == \A i \in 1..Len(last.trace) : last.trace[i].depth = 0

\* The effects of the call itself, in order, of the given kinds.
Effects(kinds) == SelectSeq(last.trace, LAMBDA e : e.depth = 0 /\ e.ev \in kinds)

Kinds(events) == [i \in 1..Len(events) |-> events[i].ev]

\* The container is as it was before the call.
Untouched ==
    /\ values = last.pre.values
    /\ lastKnownLength = last.pre.lastKnownLength
    /\ changeEvent = last.pre.changeEvent

\* The list an optional argument stands for.
ListOf(opt) == IF opt = None THEN <<>> ELSE opt[1]

\* The normalized position and remove count of the last call, a spliceWithArray,
\* on a storage of length n.
Position(n) ==
    IF last.op.index = None THEN 0
    ELSE IF last.op.index[1] > n THEN n
    ELSE IF last.op.index[1] < 0 THEN Max(0, n + last.op.index[1])
    ELSE last.op.index[1]

RemoveCount(n) ==
    IF last.op.argc = 1 THEN n - Position(n)
    ELSE IF last.op.deleteCount = None THEN 0
    ELSE IF last.op.deleteCount[1] < 0 THEN 0
    ELSE IF last.op.deleteCount[1] > n - Position(n) THEN n - Position(n)
    ELSE last.op.deleteCount[1]

\* The listeners registered before the call, each called once with the record
\* the call emitted.
Delivered(rec) ==
    LET heard == Effects({"listen"})
        ls    == ListOf(last.pre.changeEvent)
    IN /\ Len(heard) = Len(ls)
       /\ \A i \in 1..Len(ls) : heard[i].listener = ls[i] /\ RecordOf(heard[i]) = rec

\* The call updated the storage, then reported one change, then (with a
\* broadcaster) emitted the one record rec.
Notified(rec) ==
    LET did == Effects({"store", "reportChanged", "emit"})
    IN IF last.pre.changeEvent = None
       THEN /\ Kinds(did) = <<"store", "reportChanged">>
            /\ did[1].snapshot = values
       ELSE /\ Kinds(did) = <<"store", "reportChanged", "emit">>
            /\ did[1].snapshot = values
            /\ RecordOf(did[3]) = rec
            /\ Delivered(rec)

\* The call reported no change and emitted no record.
Silent == Effects({"reportChanged", "emit", "listen"}) = <<>>

(***************************************************************************)
(* C1.  A spliceWithArray(position, removeCount, inserted) that does not   *)
(* fail, on a storage S of length n, with p the normalized position and r  *)
(* the normalized remove count: returns S[p .. p+r) in order, leaves the   *)
(* storage S[0..p) ++ wrapped(inserted) ++ S[p+r..n), and the length read  *)
(* afterwards is n - r + |inserted|.                                       *)
(***************************************************************************)
C1_SpliceContract ==
    (Returned("spliceWithArray") /\ Undisturbed) =>
        LET S   == last.pre.values
            n   == Len(S)
            p   == Position(n)
            r   == RemoveCount(n)
            ins == ListOf(last.op.items)
        IN /\ last.ret = RetList(SubSeq(S, p + 1, p + r))
           /\ values = SubSeq(S, 1, p) \o StoredAll(ins) \o SubSeq(S, p + r + 1, n)
           /\ Len(values) = n - r + Len(ins)
           /\ lastKnownLength = n - r + Len(ins)

\* A position counted from the end, a remove count beyond the end, an element
\* removed and an element inserted behind a kept one.
C1_Witness ==
    /\ Returned("spliceWithArray")
    /\ last.op.index = Some(-1)
    /\ last.op.deleteCount = Some(MaxLen + 1)
    /\ last.op.items = Some(<<P1>>)
    /\ Len(last.pre.values) = 2
    /\ Len(last.ret.list) = 1
    /\ Len(values) = 2

(***************************************************************************)
(* C2.  spliceWithArray(i, 0, []) at an in-range position i returns an     *)
(* empty list, leaves storage, lastKnownLength, the broadcaster and its    *)
(* listeners as they were, reports no change and emits no record.          *)
(***************************************************************************)
C2_NoOp ==
    ( /\ last.op.name = "spliceWithArray"
      /\ last.op.index # None
      /\ last.op.deleteCount = Some(0)
      /\ last.op.items = Some(<<>>) ) =>
        ( (0 <= last.op.index[1] /\ last.op.index[1] <= Len(last.pre.values)) =>
            /\ last.err = "none"
            /\ last.ret = RetList(<<>>)
            /\ Untouched
            /\ last.trace = <<>> )

\* The no-op on a container that holds elements and has a listener.
C2_Witness ==
    /\ Returned("spliceWithArray")
    /\ last.op.index = Some(1)
    /\ last.op.deleteCount = Some(0)
    /\ last.op.items = Some(<<>>)
    /\ Len(last.pre.values) = 2
    /\ last.pre.changeEvent = Some(<<"L1">>)

(***************************************************************************)
(* C3.  A spliceWithArray that does not fail and removes or inserts at     *)
(* least one element first updates the storage, then reports exactly one   *)
(* change, then (if a broadcaster exists) emits exactly one splice record  *)
(* {index = normalized position, removed = the returned list, addedCount = *)
(* number of inserted values}; one that removes and inserts nothing        *)
(* reports no change and emits no record.  In every call, every record     *)
(* emitted follows a reported change, which follows an update of storage.  *)
(***************************************************************************)
C3_NotifyAfterStore ==
    /\ Returned("spliceWithArray") =>
          IF Len(last.ret.list) = 0 /\ Len(ListOf(last.op.items)) = 0
          THEN Silent
          ELSE Notified(SpliceRecord(Position(Len(last.pre.values)), last.ret.list,
                                     Len(ListOf(last.op.items))))
    /\ \A i \in 1..Len(last.trace) :
          /\ last.trace[i].ev = "emit" =>
                /\ i > 1
                /\ last.trace[i - 1].ev = "reportChanged"
                /\ last.trace[i - 1].depth = last.trace[i].depth
          /\ last.trace[i].ev = "reportChanged" =>
                /\ i > 1
                /\ last.trace[i - 1].ev = "store"
                /\ last.trace[i - 1].depth = last.trace[i].depth

\* A splice that removes one element and inserts another, heard by a listener.
C3_Witness ==
    /\ Returned("spliceWithArray")
    /\ last.pre.changeEvent = Some(<<"L1">>)
    /\ Len(last.ret.list) = 1
    /\ last.op.items = Some(<<P1>>)
    /\ Position(Len(last.pre.values)) = 1

(***************************************************************************)
(* Assignment to one position: container[i] = v.                           *)
(***************************************************************************)
\* The last call assigned at an existing position and returned.
AssignedInBounds ==
    /\ Returned("set")
    /\ Undisturbed
    /\ last.op.num < Len(last.pre.values)

\* What the assignment did, given whether the assigned value differs from the
\* stored one.
Assigned(differs) ==
    IF differs
    THEN /\ values = [last.pre.values EXCEPT ![last.op.num + 1] = Stored(last.op.value)]
         /\ lastKnownLength = last.pre.lastKnownLength
         /\ Len(values) = Len(last.pre.values)
         /\ Notified(UpdateRecord(last.op.num, last.pre.values[last.op.num + 1]))
    ELSE /\ Untouched
         /\ last.trace = <<>>

(***************************************************************************)
(* C4, as the specification states it.  Assignment at an existing position *)
(* i: if the new value differs from the stored one under the comparison of *)
(* the mode (identity for Reference and Flat, deep structural comparison   *)
(* for Structure and Recursive) it is stored, one change is reported and   *)
(* one update record {index i, oldValue} is emitted, the length unchanged; *)
(* if it is equal, storage is unchanged and nothing is reported or emitted.*)
(* The container does not behave so in Recursive mode.                     *)
(***************************************************************************)
C4_DeepInStructureAndRecursive ==
    AssignedInBounds =>
        Assigned(IF mode \in {"Reference", "Flat"}
                 THEN last.pre.values[last.op.num + 1] # last.op.value
                 ELSE last.pre.values[last.op.num + 1].shape # last.op.value.shape)

(***************************************************************************)
(* C4, amended.  The same, with deep structural comparison in Structure    *)
(* mode only and identity in Reference, Flat and Recursive mode.           *)
(***************************************************************************)
C4_DeepInStructureOnly ==
    AssignedInBounds =>
        Assigned(IF mode = "Structure"
                 THEN last.pre.values[last.op.num + 1].shape # last.op.value.shape
                 ELSE last.pre.values[last.op.num + 1] # last.op.value)

\* In Structure mode a value equal in structure to the stored one, but not the
\* same value, was assigned while a listener was registered.
C4_Witness ==
    /\ AssignedInBounds
    /\ mode = "Structure"
    /\ last.pre.values[last.op.num + 1] # last.op.value
    /\ last.pre.values[last.op.num + 1].shape = last.op.value.shape
    /\ last.pre.changeEvent # None

(***************************************************************************)
(* C5.  Assignment at a position strictly greater than the current length  *)
(* fails with an Error and leaves storage, lastKnownLength and listeners   *)
(* unchanged, reports no change and emits no record.  The container does   *)
(* not behave so at a position that has no accessor.                       *)
(***************************************************************************)
C5_BeyondLengthFails ==
    (last.op.name = "set" /\ last.op.num > Len(last.pre.values)) =>
        /\ last.err # "none"
        /\ last.op.value.kind # "modifier" => last.err = "IndexOutOfBounds"
        /\ Untouched
        /\ last.trace = <<>>

(***************************************************************************)
(* C6.  observe(listener, true) on a container of n elements calls the     *)
(* listener exactly once, before it registers it and returns, with the     *)
(* splice record {index 0, removed [], addedCount n}, leaves storage and   *)
(* length unchanged and returns the handle that unsubscribes; with         *)
(* fireImmediately false the listener is not called during observe.        *)
(***************************************************************************)
C6_ObserveFires ==
    Returned("observe") =>
        LET own == Effects({"reportObserved", "reportChanged", "wrap", "store",
                            "emit", "listen", "on"})
        IN /\ last.ret = RetHandle(last.op.listener)
           /\ lastKnownLength = Len(values)
           /\ Undisturbed =>
                 /\ values = last.pre.values
                 /\ lastKnownLength = last.pre.lastKnownLength
                 /\ changeEvent = Some(Append(ListOf(last.pre.changeEvent), last.op.listener))
           /\ IF last.op.fire
              THEN /\ Kinds(own) = <<"listen", "on">>
                   /\ own[1].listener = last.op.listener
                   /\ RecordOf(own[1]) = SpliceRecord(0, <<>>, Len(last.pre.values))
                   /\ own[2].listener = last.op.listener
              ELSE /\ Kinds(own) = <<"on">>
                   /\ own[1].listener = last.op.listener

\* An immediate fire on a container of two elements.
C6_Witness ==
    /\ Returned("observe")
    /\ last.op.fire
    /\ Len(last.pre.values) = 2
    /\ Len(Effects({"listen"})) = 1

(***************************************************************************)
(* C7.  peek() returns the live backing storage and reports zero           *)
(* observations.  The container reports one.                               *)
(***************************************************************************)
C7_PeekReportsNothing ==
    last.op.name = "peek" =>
        /\ last.err = "none"
        /\ last.ret = RetLive(values)
        /\ Untouched
        /\ Effects({"reportObserved"}) = <<>>

(***************************************************************************)
(* C8.  Every in-bounds indexed read, every length read and every call of  *)
(* a bulk read (slice, indexOf, concat, map, reduce, join, find, toJSON,   *)
(* reverse, sort, the string projections, ...) reports exactly one         *)
(* observation per call.  reverse and sort report two, the string          *)
(* projections none.                                                       *)
(***************************************************************************)
BulkReads ==
    WrappedFunctions \cup {"find", "toJSON", "reverse", "sort", "toString", "toLocaleString"}

C8_OneObservationPerRead ==
    ( \/ last.op.name \in BulkReads
      \/ last.op.name = "getLength"
      \/ last.op.name = "get" /\ last.op.num < Len(last.pre.values) ) =>
        /\ last.err = "none"
        /\ Len(Effects({"reportObserved"})) = 1

(***************************************************************************)
(* C9.  remove(v) returns true exactly when v occurs in storage; then only *)
(* the first occurrence, at index k, is removed, the other elements keep   *)
(* their order and one splice record {index k, removed [v], addedCount 0}  *)
(* is emitted; when v does not occur it returns false, storage and length  *)
(* are unchanged and nothing is reported or emitted.                       *)
(***************************************************************************)
C9_RemoveByValue ==
    (Returned("remove") /\ Undisturbed) =>
        LET S == last.pre.values
            v == last.op.value
        IN IF \E i \in 1..Len(S) : S[i] = v
           THEN LET k == CHOOSE i \in 1..Len(S) : S[i] = v /\ \A j \in 1..(i - 1) : S[j] # v
                IN /\ last.ret = RetBool(TRUE)
                   /\ values = SubSeq(S, 1, k - 1) \o SubSeq(S, k + 1, Len(S))
                   /\ lastKnownLength = Len(S) - 1
                   /\ Notified(SpliceRecord(k - 1, <<v>>, 0))
           ELSE /\ last.ret = RetBool(FALSE)
                /\ Untouched
                /\ last.trace = <<>>

\* The first of two elements was removed, with a listener registered.
C9_Witness ==
    /\ Returned("remove")
    /\ Len(last.pre.values) = 2
    /\ last.pre.values[1] = last.op.value
    /\ last.pre.changeEvent # None
    /\ Len(values) = 1

(***************************************************************************)
(* C10.  push, unshift, pop, shift, clear and replace behave like the      *)
(* operations of a plain array run side by side: each returns what the     *)
(* plain operation returns (the new length; the last or first element, or  *)
(* undefined on an empty container; all previous elements), a push of      *)
(* items emits one splice record {index oldLength, removed [], addedCount  *)
(* |items|}, pop and shift on an empty container change and notify         *)
(* nothing, and after any sequence of them the contents of the container   *)
(* are the contents of the plain array.                                    *)
(***************************************************************************)
C10_LikePlainArray ==
    /\ values = plain
    /\ (last.op.name \in Conveniences /\ last.err = "none" /\ Undisturbed) =>
          /\ last.ret = last.plain
          /\ lastKnownLength = Len(plain)
    /\ (Returned("push") /\ last.op.items[1] # <<>>) =>
          Notified(SpliceRecord(Len(last.pre.values), <<>>, Len(last.op.items[1])))
    /\ (last.op.name \in {"pop", "shift"} /\ last.pre.values = <<>>) =>
          /\ last.err = "none"
          /\ last.ret = RetVal(Undefined)
          /\ Untouched
          /\ last.trace = <<>>
    /\ (Returned("clear") /\ Undisturbed) =>
          /\ values = <<>>
          /\ last.ret = RetList(last.pre.values)
    /\ (Returned("replace") /\ Undisturbed) =>
          /\ values = StoredAll(ListOf(last.op.items))
          /\ last.ret = RetList(last.pre.values)

\* A shift took the first of two different elements.
C10_Witness ==
    /\ Returned("shift")
    /\ Len(last.pre.values) = 2
    /\ last.pre.values[1] # last.pre.values[2]
    /\ plain = <<last.pre.values[2]>>
    /\ last.plain = RetVal(last.pre.values[1])


(***************************************************************************)
(* C11.  reverse() and sort() return a new sequence, the reversed and the  *)
(* sorted copy of the contents, and leave storage order, length and        *)
(* lastKnownLength unchanged, report no change and emit no record.         *)
(***************************************************************************)
\* How often v occurs in list.
Occurrences(list, v) == Cardinality({i \in 1..Len(list) : list[i] = v})

C11_ReverseSortOnCopy ==
    (last.op.name \in {"reverse", "sort"}) =>
        /\ last.err = "none"
        /\ Untouched
        /\ Silent
        /\ Effects({"store"}) = <<>>
        /\ last.ret.kind = "list"
        /\ Len(last.ret.list) = Len(values)
        /\ last.op.name = "reverse" =>
              \A i \in 1..Len(values) : last.ret.list[i] = values[Len(values) + 1 - i]
        /\ last.op.name = "sort" =>
              /\ \A i \in 1..Len(values) :
                    Occurrences(last.ret.list, values[i]) = Occurrences(values, values[i])
              /\ \A i \in 1..(Len(values) - 1) :
                    SortKey(last.ret.list[i]) <= SortKey(last.ret.list[i + 1])

\* A reverse of two different elements, heard by nobody though a listener is
\* registered.
C11_Witness ==
    /\ Returned("reverse")
    /\ Len(values) = 2
    /\ values[1] # values[2]
    /\ last.ret.list = <<values[2], values[1]>>
    /\ changeEvent # None


(***************************************************************************)
(* C12.  A length write length := m on a container of length n, with m a   *)
(* whole number >= 0, that does not fail leaves the container with length  *)
(* m and its first min(n, m) elements unchanged; for m > n one splice      *)
(* record {index n, removed [], addedCount m - n} is emitted, for m < n    *)
(* one splice record {index m, removed = the old elements [m..n),          *)
(* addedCount 0}, for m = n nothing is reported or emitted.  A negative    *)
(* (or non-numeric) value is rejected with an Error and leaves the state   *)
(* unchanged.                                                              *)
(***************************************************************************)
C12_LengthWrite ==
    /\ (Returned("setLength") /\ Undisturbed) =>
          LET S == last.pre.values
              n == Len(S)
              m == last.op.num
          IN /\ m >= 0
             /\ Len(values) = m
             /\ lastKnownLength = m
             /\ \A i \in 1..Min(n, m) : values[i] = S[i]
             /\ \A i \in (n + 1)..m : values[i] = Undefined
             /\ m > n => Notified(SpliceRecord(n, <<>>, m - n))
             /\ m < n => Notified(SpliceRecord(m, SubSeq(S, m + 1, n), 0))
             /\ m = n => last.trace = <<>>
    /\ (last.op.name = "setLength" /\ last.op.num < 0) =>
          /\ last.err = "OutOfRange"
          /\ Untouched
          /\ last.trace = <<>>

\* A listener heard the length of a container of two go down to one.
C12_Witness ==
    /\ Returned("setLength")
    /\ last.op.num = 1
    /\ Len(last.pre.values) = 2
    /\ last.pre.changeEvent # None
    /\ Len(Effects({"listen"})) = 1


(***************************************************************************)
(* Mutations and the guard on state changes.                               *)
(***************************************************************************)
\* spliceWithArray and the conveniences built on it; container[i] = v.
SpliceBased ==
    {"spliceWithArray", "splice", "push", "unshift", "pop", "shift", "clear",
     "replace", "remove"}

\* The last call was one in which spliceWithArray has nothing to insert and
\* is to remove exactly 0 elements or works on an empty storage; or no call of
\* spliceWithArray was due at all: a splice without arguments, a remove of a
\* value that does not occur, a write of the length the container has.
NothingToDo ==
    LET n     == Len(last.pre.values)
        empty == ListOf(last.op.items) = <<>>
    IN CASE last.op.name = "spliceWithArray" ->
                empty /\ (last.op.deleteCount = Some(0) \/ n = 0)
         [] last.op.name = "splice" ->
                \/ last.op.argc = 0
                \/ empty /\ (last.op.deleteCount = Some(0) \/ n = 0)
         [] last.op.name \in {"push", "unshift"} -> empty
         [] last.op.name \in {"pop", "shift", "clear"} -> n = 0
         [] last.op.name = "replace" -> empty /\ n = 0
         [] last.op.name = "remove" ->
                \A i \in 1..n : last.pre.values[i] # last.op.value
         [] last.op.name = "setLength" -> last.op.num = n
         [] OTHER -> FALSE

Mutations == SpliceBased \cup {"setLength", "set"}

C14_FailureAtomicity ==
    (last.op.name \in Mutations /\ last.err # "none" /\ Undisturbed) =>
        /\ values = last.pre.values
        /\ lastKnownLength = last.pre.lastKnownLength
        /\ changeEvent = last.pre.changeEvent
        /\ OBSERVABLE_ARRAY_BUFFER_SIZE = last.pre.size
        /\ accessors = last.pre.accessors
        /\ Effects({"store", "reportChanged", "emit", "listen"}) = <<>>

\* An unshift of two items was refused because of the guard, after both items
\* had been wrapped.
C14_Witness ==
    /\ last.op.name = "unshift"
    /\ last.err = "StateChangesNotAllowed"
    /\ Len(Effects({"wrap"})) = 2
    /\ Len(last.pre.values) = 0
    /\ last.pre.changeEvent # None


(***************************************************************************)
(* C15.  Length consistency under reentrancy: over every sequence of       *)
(* public operations, mutations by listeners from inside their callbacks   *)
(* included, storage.length = lastKnownLength holds between the calls, at  *)
(* the entry of every mutation and wherever a listener is invoked, and the *)
(* structural-modification Error is never raised.                          *)
(***************************************************************************)
C15_LengthConsistency ==
    /\ lastKnownLength = Len(values)
    /\ last.pre.lastKnownLength = Len(last.pre.values)
    /\ last.err # "ModificationException"
    /\ \A i \in 1..Len(last.trace) :
          last.trace[i].ev = "listen" =>
              last.trace[i].lastKnownLength = Len(last.trace[i].snapshot)

\* A listener, called for a change another call of a listener made, changed
\* the storage itself.
C15_Witness ==
    /\ last.err = "none"
    /\ last.op.name \in Mutations
    /\ \E i \in 1..Len(last.trace) :
          last.trace[i].depth = 2 /\ last.trace[i].ev = "store"


(***************************************************************************)
(* C16.  Tamper detection: once the length of the storage has been changed *)
(* behind the container's back, so that storage.length # lastKnownLength,  *)
(* the next mutation of any kind (spliceWithArray with any arguments, any  *)
(* convenience, a length write, an assignment to one position) fails with  *)
(* the structural-modification Error.  The container completes those that  *)
(* never reach updateLength.                                               *)
(***************************************************************************)
C16_TamperDetected ==
    ( /\ last.op.name \in Mutations
      /\ last.pre.lastKnownLength # Len(last.pre.values) ) =>
        last.err = "ModificationException"


(***************************************************************************)
(* C17.  Wrapping is applied exactly once per inserted value on every      *)
(* insertion path: makeReactiveArrayItem is applied once, not zero times   *)
(* and not more than once, to each value that ends up in storage, and not  *)
(* to values already in storage.  An assignment at position = length       *)
(* applies it twice.                                                       *)
(***************************************************************************)
C17_WrappedOnce ==
    (last.op.name \in SpliceBased \cup {"set"} /\ last.err = "none" /\ Undisturbed) =>
        LET wraps    == Effects({"wrap"})
            inserted == IF last.op.name = "set"
                        THEN (IF Effects({"store"}) = <<>> THEN <<>> ELSE <<last.op.value>>)
                        ELSE ListOf(last.op.items)
        IN /\ Len(wraps) = Len(inserted)
           /\ \A i \in 1..Len(inserted) : wraps[i].value = inserted[i]


(***************************************************************************)
(* C18.  Append by index: in every state reachable through public          *)
(* operations, with n the current length, the accessor pool has an         *)
(* accessor for every position 0..n, and an assignment at position n is    *)
(* intercepted and treated as an append: the length becomes n + 1, the     *)
(* value is stored at position n, the elements at [0, n) are unchanged and *)
(* one splice record {index n, removed [], addedCount 1} is emitted.  A    *)
(* container as long as the pool has no accessor at position n.            *)
(***************************************************************************)
C18_AppendIntercepted ==
    /\ accessors > Len(values)
    /\ ( /\ last.op.name = "set"
         /\ last.op.num = Len(last.pre.values)
         /\ last.op.value.kind # "modifier"
         /\ last.pre.allow
         /\ Undisturbed ) =>
          /\ last.err = "none"
          /\ Len(values) = Len(last.pre.values) + 1
          /\ values[Len(values)] = Stored(last.op.value)
          /\ SubSeq(values, 1, Len(last.pre.values)) = last.pre.values
          /\ lastKnownLength = Len(values)
          /\ Notified(SpliceRecord(Len(last.pre.values), <<>>, 1))


(***************************************************************************)
(* C19.  Growth of the accessor pool.                                      *)
(***************************************************************************)
ReserveCalled == last.op.name = "reserveArrayBuffer"

C20_CounterIsLength ==
    \A l \in Listeners : counter[l] # None => counter[l][1] = Len(values)

=============================================================================
